---------------------------- MODULE Spec2Model ----------------------------
(* WiFiConnectionManager (src/src/index.ts): the connection-lifecycle     *)
(* state machine that sits between a caller and the Moddable WiFi driver.  *)
(* The manager's fields are the variables; every handler of the class is   *)
(* an operator from a manager record to a manager record, composed in the  *)
(* order the code runs them, and every entry point (driver event, timer    *)
(* expiry, close, ready) is one action.                                    *)
EXTENDS Integers, Sequences, FiniteSets

(* ------------------------------ bounds -------------------------------- *)
\* longest access point list tried
MaxAPs == 3
\* timer slots of the timer service
MaxTimers == 3
\* the close counters saturate here
MaxCloses == 2

(* --------------------------- program values --------------------------- *)
\* type WiFiMessage
WiFiMessage ==
  {"gotIP", "lostIP", "connect", "disconnect", "station_connect", "station_disconnect"}

\* an optional Timer field that holds no timer
undefined == 0

TimerIds == 1..MaxTimers

\* the number NaN, which (x + 1) % 0 evaluates to
NaN == -1

\* (index + 1) % length, as JavaScript computes it
Advance(index, length) ==
  IF index = NaN \/ length = 0 THEN NaN ELSE (index + 1) % length

\* array[index], undefined outside the array
At(array, index) ==
  IF index \in 0..(Len(array) - 1) THEN array[index + 1] ELSE undefined

VARIABLES
  accessPointConfig,  \* the constructor's list: <<1, .., n>>, an access point named by its place
  onNetworkChange,    \* TRUE iff the caller supplied a callback
  reconnectTimer,     \* handle of the reconnect-backoff timer, or undefined
  connectionTimer,    \* handle of the connection-timeout timer, or undefined
  currentState,       \* the last WiFiMessage stored
  APIndex,            \* cursor into accessPointConfig, counted from 0
  timers,             \* the timer service: id -> "free", "connection" or "reconnect"
  released,           \* the parent WiFi object was released by a successful super.close()
  op,                 \* the entry point that ran last
  notified,           \* the messages the last entry point passed to onNetworkChange
  driverCalls,        \* the driver calls the last entry point issued, with their outcome
  fault,              \* the last entry point let an error escape to its caller
  lastEvent,          \* history: the last driver event handled, "none" before the first
  gotIPSince,         \* history: a gotIP was handled, and no disconnect event or timeout since
  closes,             \* history: calls of close so far
  closeDisconnects,   \* history: WiFi.disconnect() calls issued by close so far
  closeReleases,      \* history: super.close() calls issued by close so far
  attempt,            \* history: the access point of the last connect request, undefined after a gotIP
  connects,           \* history: parity of the number of connect requests issued
  timedOut            \* history: a connection timeout expired, and no connect request or gotIP since

fields == <<accessPointConfig, onNetworkChange, reconnectTimer, connectionTimer,
            currentState, APIndex, timers>>

vars == <<accessPointConfig, onNetworkChange, reconnectTimer, connectionTimer,
          currentState, APIndex, timers, released, op, notified, driverCalls,
          fault, lastEvent, gotIPSince, closes, closeDisconnects, closeReleases,
          attempt, connects, timedOut>>

(* ------------------------- the manager record ------------------------- *)
\* The manager as an entry point finds it: its fields, the timer service, and
\* empty logs for what this entry point will do.
Self ==
  [accessPointConfig |-> accessPointConfig, onNetworkChange |-> onNetworkChange,
   reconnectTimer |-> reconnectTimer, connectionTimer |-> connectionTimer,
   currentState |-> currentState, APIndex |-> APIndex, timers |-> timers,
   notified |-> <<>>, driverCalls |-> <<>>, fault |-> FALSE]

\* this.onNetworkChange?.(message)
notify(s, message) ==
  IF s.onNetworkChange THEN [s EXCEPT !.notified = Append(@, message)] ELSE s

\* WiFi.connect(options); ok is FALSE when the driver rejects the call by throwing
WiFiConnect(s, options, ok) ==
  [s EXCEPT !.driverCalls = Append(@, <<"connect", options, ok>>)]

\* WiFi.disconnect()
WiFiDisconnect(s, ok) ==
  [s EXCEPT !.driverCalls = Append(@, <<"disconnect", ok>>)]

\* super.close()
superClose(s, ok) ==
  [s EXCEPT !.driverCalls = Append(@, <<"close", ok>>)]

(* --------------------------- timer service ---------------------------- *)
LiveTimers(t, role) == {i \in TimerIds : t[i] = role}

FreeTimers(t) == {i \in TimerIds : t[i] = "free"}

\* the handle Timer.set returns: the lowest free slot
TimerSet(t) == CHOOSE i \in FreeTimers(t) : \A j \in FreeTimers(t) : i <= j

\* Timer.clear(id): the callback of id will not run
TimerClear(t, id) == [t EXCEPT ![id] = "free"]

(* ------------------------------ handlers ------------------------------ *)
clearConnectionTimer(s) ==
  IF s.connectionTimer # undefined
  THEN [s EXCEPT !.timers = TimerClear(@, s.connectionTimer),
                 !.connectionTimer = undefined]
  ELSE s

\* mutant: the handle is dropped but the timer is never cancelled
clearReconnectTimer_NoClear(s) ==
  [s EXCEPT !.reconnectTimer = undefined]

clearReconnectTimer(s) ==
  IF s.reconnectTimer # undefined
  THEN [s EXCEPT !.timers = TimerClear(@, s.reconnectTimer),
                 !.reconnectTimer = undefined]
  ELSE s

\* mutant: the connection-timeout timer is forgotten
clearTimers_ReconnectOnly(s) == clearReconnectTimer(s)

\* mutant: the reconnect timer is forgotten
clearTimers_ConnectionOnly(s) == clearConnectionTimer(s)

clearTimers(s) == clearReconnectTimer(clearConnectionTimer(s))

\* this.connectionTimer = Timer.set(..., this.connectionTimeout)
startConnectionTimer(s) ==
  LET id == TimerSet(s.timers)
  IN  [s EXCEPT !.timers[id] = "connection", !.connectionTimer = id]

\* the callback startConnectionTimer schedules
connectionTimerCallback(s, ok) ==
  WiFiDisconnect(clearConnectionTimer(s), ok)

\* mutant: the connection-timeout timer is left running during the backoff
handleDisconnect_KeepsConnectionTimer(s) ==
  LET s2 == [s EXCEPT !.APIndex = Advance(s.APIndex, Len(s.accessPointConfig))]
      s3 == clearReconnectTimer(s2)
      id == TimerSet(s3.timers)
      s4 == [s3 EXCEPT !.timers[id] = "reconnect", !.reconnectTimer = id]
  IN  IF s4.currentState # "disconnect"
      THEN notify([s4 EXCEPT !.currentState = "disconnect"], "disconnect")
      ELSE s4

\* mutant: the cursor advances only on the first disconnect of a run
handleDisconnect_AdvanceOnFirst(s) ==
  LET s1 == clearConnectionTimer(s)
      s3 == clearReconnectTimer(s1)
      id == TimerSet(s3.timers)
      s4 == [s3 EXCEPT !.timers[id] = "reconnect", !.reconnectTimer = id]
  IN  IF s4.currentState # "disconnect"
      THEN notify([s4 EXCEPT !.currentState = "disconnect",
                             !.APIndex = Advance(@, Len(s4.accessPointConfig))],
                  "disconnect")
      ELSE s4

handleDisconnect(s) ==
  LET s1 == clearConnectionTimer(s)
      s2 == [s1 EXCEPT !.APIndex = Advance(s1.APIndex, Len(s1.accessPointConfig))]
      s3 == clearReconnectTimer(s2)
      id == TimerSet(s3.timers)
      s4 == [s3 EXCEPT !.timers[id] = "reconnect", !.reconnectTimer = id]
  IN  IF s4.currentState # "disconnect"
      THEN notify([s4 EXCEPT !.currentState = "disconnect"], "disconnect")
      ELSE s4

\* mutant: the retry always goes to the first access point
reconnectTimerCallback_FirstAP(s, ok) ==
  LET s1 == [s EXCEPT !.reconnectTimer = undefined]
      s2 == WiFiConnect(s1, At(s1.accessPointConfig, 0), ok)
  IN  IF ok THEN startConnectionTimer(s2) ELSE handleDisconnect(s2)

\* the callback handleDisconnect schedules
reconnectTimerCallback(s, ok) ==
  LET s1 == [s EXCEPT !.reconnectTimer = undefined]
      s2 == WiFiConnect(s1, At(s1.accessPointConfig, s1.APIndex), ok)
  IN  IF ok THEN startConnectionTimer(s2) ELSE handleDisconnect(s2)

\* mutant: a connect event cancels the connection-timeout timer as well
handleWiFiEvent_ConnectClearsBoth(s, message) ==
  LET s1 == IF message = "disconnect" THEN handleDisconnect(s)
            ELSE IF message = "gotIP" THEN [clearTimers(s) EXCEPT !.APIndex = 0]
            ELSE IF message = "connect" THEN clearTimers(s)
            ELSE s
  IN  notify([s1 EXCEPT !.currentState = message], message)

\* mutant: the message is forwarded but never stored
handleWiFiEvent_NoStore(s, message) ==
  LET s1 == IF message = "disconnect" THEN handleDisconnect(s)
            ELSE IF message = "gotIP" THEN [clearTimers(s) EXCEPT !.APIndex = 0]
            ELSE IF message = "connect" THEN clearReconnectTimer(s)
            ELSE s
  IN  notify(s1, message)

handleWiFiEvent(s, message) ==
  LET s1 == IF message = "disconnect" THEN handleDisconnect(s)
            ELSE IF message = "gotIP" THEN [clearTimers(s) EXCEPT !.APIndex = 0]
            ELSE IF message = "connect" THEN clearReconnectTimer(s)
            ELSE s
  IN  notify([s1 EXCEPT !.currentState = message], message)

close(s, dOk, rOk) ==
  superClose(WiFiDisconnect(clearTimers(s), dOk), rOk)

\* get ready()
ready == currentState = "gotIP"

\* the field initialisers, before the constructor body runs
fresh(config, callback) ==
  [accessPointConfig |-> config, onNetworkChange |-> callback,
   reconnectTimer |-> undefined, connectionTimer |-> undefined,
   currentState |-> "disconnect", APIndex |-> 0,
   timers |-> [i \in TimerIds |-> "free"],
   notified |-> <<>>, driverCalls |-> <<>>, fault |-> FALSE]

\* mutant: the constructor forgets to start the connection-timeout timer
constructor_NoTimer(config, callback, ok) ==
  LET s1 == WiFiConnect(fresh(config, callback), At(config, 0), ok)
  IN  IF ok THEN s1 ELSE [s1 EXCEPT !.fault = TRUE]

\* The constructor: super(accessPointConfig[0], ...) issues the first connect
\* and is not in a try block, so a rejection (ok = FALSE) leaves the constructor
\* before startConnectionTimer runs.
constructor(config, callback, ok) ==
  LET s1 == WiFiConnect(fresh(config, callback), At(config, 0), ok)
  IN  IF ok THEN startConnectionTimer(s1) ELSE [s1 EXCEPT !.fault = TRUE]

(* ------------------------------ actions ------------------------------- *)
closed == closes > 0

\* a history counter, saturating at MaxCloses
Add(n, k) == IF n + k < MaxCloses THEN n + k ELSE MaxCloses

\* how many calls of one kind a log holds
Calls(log, kind) == Cardinality({i \in 1..Len(log) : log[i][1] = kind})

\* the access point of the connect request a log holds
LastConnect(log) ==
  LET i == CHOOSE j \in 1..Len(log) : log[j][1] = "connect" IN log[i][2]

\* the fields and logs after an entry point has run
Commit(s, o) ==
  /\ accessPointConfig' = s.accessPointConfig
  /\ onNetworkChange' = s.onNetworkChange
  /\ reconnectTimer' = s.reconnectTimer
  /\ connectionTimer' = s.connectionTimer
  /\ currentState' = s.currentState
  /\ APIndex' = s.APIndex
  /\ timers' = s.timers
  /\ notified' = s.notified
  /\ driverCalls' = s.driverCalls
  /\ fault' = s.fault
  /\ op' = o
  /\ attempt' = IF Calls(s.driverCalls, "connect") > 0 THEN LastConnect(s.driverCalls)
                ELSE IF o = <<"event", "gotIP">> THEN undefined
                ELSE attempt
  /\ connects' = IF Calls(s.driverCalls, "connect") > 0 THEN 1 - connects
                 ELSE connects
  /\ timedOut' = IF o = <<"connectionTimeout">> THEN TRUE
                 ELSE IF Calls(s.driverCalls, "connect") > 0 \/ o = <<"event", "gotIP">>
                   THEN FALSE
                 ELSE timedOut

Init ==
  \E n \in 1..MaxAPs, callback \in BOOLEAN :
    LET s == constructor([i \in 1..n |-> i], callback, TRUE)
    IN  /\ accessPointConfig = s.accessPointConfig
        /\ onNetworkChange = s.onNetworkChange
        /\ reconnectTimer = s.reconnectTimer
        /\ connectionTimer = s.connectionTimer
        /\ currentState = s.currentState
        /\ APIndex = s.APIndex
        /\ timers = s.timers
        /\ notified = s.notified
        /\ driverCalls = s.driverCalls
        /\ fault = s.fault
        /\ op = <<"constructor">>
        /\ released = FALSE
        /\ lastEvent = "none"
        /\ gotIPSince = FALSE
        /\ closes = 0
        /\ closeDisconnects = 0
        /\ closeReleases = 0
        /\ attempt = LastConnect(s.driverCalls)
        /\ connects = 1
        /\ timedOut = FALSE

\* The driver calls the callback the constructor registered with the parent WiFi
\* object; a released object delivers nothing.
DriverEvent ==
  /\ ~released
  /\ \E message \in WiFiMessage :
       /\ message = "disconnect" =>
            FreeTimers(clearReconnectTimer(clearConnectionTimer(Self)).timers) # {}
       /\ Commit(handleWiFiEvent(Self, message), <<"event", message>>)
       /\ lastEvent' = message
       /\ gotIPSince' = IF message = "gotIP" THEN TRUE
                        ELSE IF message = "disconnect" THEN FALSE
                        ELSE gotIPSince
  /\ UNCHANGED <<released, closes, closeDisconnects, closeReleases>>

\* A live connection-timeout timer fires.
ConnectionTimeout ==
  /\ \E id \in LiveTimers(timers, "connection"), ok \in BOOLEAN :
       Commit(connectionTimerCallback([Self EXCEPT !.timers[id] = "free"], ok),
              <<"connectionTimeout">>)
  /\ gotIPSince' = FALSE
  /\ UNCHANGED <<released, lastEvent, closes, closeDisconnects, closeReleases>>

\* A live reconnect-backoff timer fires.
ReconnectExpiry ==
  /\ \E id \in LiveTimers(timers, "reconnect"), ok \in BOOLEAN :
       Commit(reconnectTimerCallback([Self EXCEPT !.timers[id] = "free"], ok),
              <<"reconnectExpiry">>)
  /\ UNCHANGED <<released, lastEvent, gotIPSince, closes, closeDisconnects,
                 closeReleases>>

\* The caller calls close().
Close ==
  /\ \E dOk \in BOOLEAN, rOk \in BOOLEAN :
       /\ Commit(close(Self, dOk, rOk), <<"close">>)
       /\ released' = (released \/ rOk)
  /\ closes' = Add(closes, 1)
  /\ closeDisconnects' = Add(closeDisconnects, Calls(driverCalls', "disconnect"))
  /\ closeReleases' = Add(closeReleases, Calls(driverCalls', "close"))
  /\ UNCHANGED <<lastEvent, gotIPSince>>

\* The caller reads ready.
Ready ==
  /\ Commit(Self, <<"ready">>)
  /\ UNCHANGED <<released, lastEvent, gotIPSince, closes, closeDisconnects,
                 closeReleases>>

Next ==
  \/ DriverEvent
  \/ ConnectionTimeout
  \/ ReconnectExpiry
  \/ Close
  \/ Ready

Spec == Init /\ [][Next]_vars

\* No manager yet: the caller has not run the constructor.
Unconstructed ==
  LET s == fresh(<<>>, FALSE)
  IN  /\ accessPointConfig = s.accessPointConfig
      /\ onNetworkChange = s.onNetworkChange
      /\ reconnectTimer = s.reconnectTimer
      /\ connectionTimer = s.connectionTimer
      /\ currentState = s.currentState
      /\ APIndex = s.APIndex
      /\ timers = s.timers
      /\ notified = s.notified
      /\ driverCalls = s.driverCalls
      /\ fault = s.fault
      /\ op = <<"new">>
      /\ released = FALSE
      /\ lastEvent = "none"
      /\ gotIPSince = FALSE
      /\ closes = 0
      /\ closeDisconnects = 0
      /\ closeReleases = 0
      /\ attempt = undefined
      /\ connects = 0
      /\ timedOut = FALSE

\* The caller runs new WiFiConnectionManager(list, callback) with a list of any
\* length, the empty one included; the driver accepts or rejects the connect.
Construct ==
  /\ op = <<"new">>
  /\ \E n \in 0..MaxAPs, callback \in BOOLEAN, ok \in BOOLEAN :
       Commit(constructor([i \in 1..n |-> i], callback, ok), <<"constructor">>)
  /\ UNCHANGED <<released, lastEvent, gotIPSince, closes, closeDisconnects,
                 closeReleases>>

\* a manager exists: the constructor ran and returned
Constructed == op # <<"new">> /\ ~(op = <<"constructor">> /\ fault)

LifeNext ==
  \/ Construct
  \/ Constructed /\ DriverEvent
  \/ Constructed /\ ConnectionTimeout
  \/ Constructed /\ ReconnectExpiry
  \/ Constructed /\ Close
  \/ Constructed /\ Ready

\* The manager from before its construction on.
LifeSpec == Unconstructed /\ [][LifeNext]_vars

\* Timer expiry is fair: the timer service runs the callback of every timer that
\* stays scheduled. Driver events and the caller's calls are not.
FairSpec == Spec /\ WF_vars(ConnectionTimeout) /\ WF_vars(ReconnectExpiry)

(* ------------------------------- claims ------------------------------- *)
IsEvent(o, message) == o = <<"event", message>>

\* C1 (as claimed): of two consecutive disconnect events the second is not
\* forwarded to the callback, and the two together invoke it at most once.
C1_SecondDisconnectSuppressed ==
  [][(onNetworkChange /\ IsEvent(op, "disconnect") /\ IsEvent(op', "disconnect"))
       => (notified' = <<>> /\ Len(notified) + Len(notified') <= 1)]_vars

\* C2 (as claimed): a disconnect event handled while the state is Connecting or
\* Connected invokes the callback with "disconnect" exactly once.
C2_FirstDisconnectNotifiedOnce ==
  [][(onNetworkChange /\ currentState \in {"connect", "gotIP"}
        /\ IsEvent(op', "disconnect"))
       => notified' = <<"disconnect">>]_vars

C4_StationEventsPassThrough ==
  [][(IsEvent(op', "station_connect") \/ IsEvent(op', "station_disconnect"))
       => /\ currentState' = currentState
          /\ APIndex' = APIndex
          /\ reconnectTimer' = reconnectTimer
          /\ connectionTimer' = connectionTimer
          /\ onNetworkChange => Len(notified') = 1]_vars

\* C5 (as claimed): a driver event delivered after close changes no field and no
\* timer, issues no driver call and does not invoke the callback.
C5_NoEventAfterClose ==
  [][(closed /\ op'[1] = "event")
       => (UNCHANGED fields /\ notified' = <<>> /\ driverCalls' = <<>>)]_vars

\* C6: close can be called in every reachable state; when it returns no timer of
\* either role is scheduled and both handles are undefined, and whether or not
\* the driver rejects the disconnect or the release, both calls were issued and
\* no error escaped.
C6_CloseLeavesNoTimer ==
  /\ [](ENABLED Close)
  /\ [][op' = <<"close">>
          => /\ \A i \in TimerIds : timers'[i] = "free"
             /\ reconnectTimer' = undefined
             /\ connectionTimer' = undefined
             /\ \E dOk \in BOOLEAN, rOk \in BOOLEAN :
                  driverCalls' = << <<"disconnect", dOk>>, <<"close", rOk>> >>
             /\ ~fault']_vars

\* C6 witness: close has run with the driver rejecting both of its calls.
C6_Witness ==
  /\ op = <<"close">>
  /\ driverCalls = << <<"disconnect", FALSE>>, <<"close", FALSE>> >>
  /\ lastEvent = "disconnect"

\* C7 (as claimed): after close was called twice, close has issued at most one
\* driver disconnect and at most one driver release, and the second call raised
\* no error.
C7_CloseTwiceOneDriverPair ==
  closes >= 2 => (closeDisconnects <= 1 /\ closeReleases <= 1 /\ ~fault)

\* C8: for a manager constructed with N >= 1 access points, the cursor always
\* lies in [0, N); a disconnect event moves it to
\* (cursor + 1) mod N, a gotIP event sets it to 0, and any other driver event
\* leaves it alone.
C8_CursorCycles ==
  /\ [](APIndex \in 0..(Len(accessPointConfig) - 1))
  /\ [][op'[1] = "event"
          => APIndex' = IF op'[2] = "disconnect"
                          THEN (APIndex + 1) % Len(accessPointConfig)
                        ELSE IF op'[2] = "gotIP" THEN 0
                        ELSE APIndex]_vars

\* C8 witness: consecutive disconnects have wrapped the cursor of a list of
\* several access points back to 0.
C8_Witness ==
  /\ IsEvent(op, "disconnect")
  /\ Len(accessPointConfig) > 1
  /\ APIndex = 0

\* C9: the timers scheduled for a role are exactly the one its handle names, or
\* none when the handle is undefined: at most one per role, and none orphaned.
C9_TimerExclusivity ==
  /\ LiveTimers(timers, "connection") =
       (IF connectionTimer = undefined THEN {} ELSE {connectionTimer})
  /\ LiveTimers(timers, "reconnect") =
       (IF reconnectTimer = undefined THEN {} ELSE {reconnectTimer})

\* C9 witness: a backoff expiry whose connect was rejected has scheduled the
\* next backoff timer.
C9_Witness ==
  /\ op = <<"reconnectExpiry">>
  /\ reconnectTimer # undefined
  /\ connectionTimer = undefined

\* C10 (as claimed): after a disconnect event handled before close, eventually
\* a driver connect is issued, a gotIP event is handled, or close is called.
C10_AutoReconnect ==
  (IsEvent(op, "disconnect") /\ ~closed)
    ~> (Calls(driverCalls, "connect") > 0 \/ IsEvent(op, "gotIP") \/ closed)

\* C11 (as claimed): construction with an empty list fails, and neither a timer
\* is scheduled nor a driver call issued.
C11_EmptyListRejected ==
  (op = <<"constructor">> /\ Len(accessPointConfig) = 0)
    => (fault /\ driverCalls = <<>> /\ \A i \in TimerIds : timers[i] = "free")

\* C12: construction with a non-empty list issues exactly one driver call, a
\* connect with the first access point; when the constructor returns, the cursor
\* is 0, the state is "disconnect", ready is false, the connection-timeout timer
\* is the one scheduled timer and there is no reconnect timer.
C12_ConstructionConnectsFirst ==
  (op = <<"constructor">> /\ Len(accessPointConfig) >= 1)
    => /\ \E ok \in BOOLEAN : driverCalls = << <<"connect", accessPointConfig[1], ok>> >>
       /\ ~fault => /\ APIndex = 0
                    /\ currentState = "disconnect"
                    /\ ~ready
                    /\ connectionTimer # undefined
                    /\ LiveTimers(timers, "connection") = {connectionTimer}
                    /\ reconnectTimer = undefined
                    /\ LiveTimers(timers, "reconnect") = {}

\* C12 witness: a manager was constructed with several access points.
C12_Witness ==
  /\ op = <<"constructor">>
  /\ ~fault
  /\ Len(accessPointConfig) > 1
  /\ attempt = accessPointConfig[1]

\* C15 (as claimed): with a non-empty list no entry point, the constructor
\* included, lets a driver rejection escape to its caller.
C15_NoDriverRejectionEscapes ==
  Len(accessPointConfig) >= 1 => ~fault

\* the log of an entry point whose one driver call was a connect the driver rejected
Rejected(log) == Len(log) = 1 /\ log[1][1] = "connect" /\ ~log[1][3]

\* the log of an entry point whose one driver call was a connect the driver accepted
Accepted(log) == Len(log) = 1 /\ log[1][1] = "connect" /\ log[1][3]

\* C13 (as claimed): a connection-timeout expiry clears the handle and issues a
\* forced driver disconnect; once the driver has then delivered a disconnect
\* event, a connect request is eventually issued (unless a gotIP event or close
\* comes first).
C13_TimeoutRetries ==
  /\ [][op' = <<"connectionTimeout">>
          => /\ connectionTimer' = undefined
             /\ \E ok \in BOOLEAN : driverCalls' = << <<"disconnect", ok>> >>]_vars
  /\ (IsEvent(op, "disconnect") /\ timedOut /\ ~closed)
       ~> (Calls(driverCalls, "connect") > 0 \/ IsEvent(op, "gotIP") \/ closed)

\* C14 (as claimed): while no gotIP event is handled, every connect request uses
\* the access point that follows, cyclically, the one of the previous request.
C14_AccessPointsInOrder ==
  [][(Calls(driverCalls', "connect") > 0 /\ attempt # undefined)
       => LastConnect(driverCalls') = (attempt % Len(accessPointConfig)) + 1]_vars

\* C16 (as claimed): a backoff expiry whose connect the driver rejects lets no
\* error escape, starts no connection-timeout timer, advances the cursor by one
\* and leaves a backoff timer scheduled; and after it a further connect request
\* is eventually issued (unless a gotIP event or close comes first).
C16_RejectedConnectRetries ==
  /\ [][(op' = <<"reconnectExpiry">> /\ Rejected(driverCalls'))
          => /\ ~fault'
             /\ connectionTimer' = undefined
             /\ LiveTimers(timers', "connection") = {}
             /\ APIndex' = Advance(APIndex, Len(accessPointConfig))
             /\ reconnectTimer' # undefined]_vars
  /\ \A b \in {0, 1} :
       (op = <<"reconnectExpiry">> /\ Rejected(driverCalls) /\ connects = b /\ ~closed)
         ~> (connects = 1 - b \/ IsEvent(op, "gotIP") \/ closed)

\* C17: a backoff expiry whose connect the driver accepts clears the reconnect
\* handle, issues that one connect with the access point at the cursor, leaves
\* a newly scheduled connection-timeout timer, and changes neither the state nor
\* the cursor; and with 2 access points the first disconnect after construction
\* puts the cursor on index 1 and schedules the backoff timer.
C17_AcceptedRetry ==
  /\ [][(op' = <<"reconnectExpiry">> /\ Accepted(driverCalls'))
          => /\ reconnectTimer' = undefined
             /\ LiveTimers(timers', "reconnect") = {}
             /\ driverCalls' = << <<"connect", At(accessPointConfig, APIndex), TRUE>> >>
             /\ connectionTimer' # undefined
             /\ LiveTimers(timers', "connection") = {connectionTimer'}
             /\ currentState' = currentState
             /\ APIndex' = APIndex]_vars
  /\ [][(op = <<"constructor">> /\ IsEvent(op', "disconnect")
           /\ Len(accessPointConfig) = 2)
          => (APIndex' = 1 /\ reconnectTimer' # undefined)]_vars

\* C17 witness: with 2 access points the retry went to the second one.
C17_Witness ==
  /\ op = <<"reconnectExpiry">>
  /\ Len(accessPointConfig) = 2
  /\ driverCalls = << <<"connect", 2, TRUE>> >>
  /\ connectionTimer # undefined

\* C18: a connect event leaves no reconnect timer scheduled, sets the state to
\* "connect", is forwarded once, and leaves the connection-timeout timer and the
\* cursor as they were.
C18_ConnectEvent ==
  [][IsEvent(op', "connect")
       => /\ reconnectTimer' = undefined
          /\ LiveTimers(timers', "reconnect") = {}
          /\ currentState' = "connect"
          /\ onNetworkChange => notified' = <<"connect">>
          /\ connectionTimer' = connectionTimer
          /\ LiveTimers(timers', "connection") = LiveTimers(timers, "connection")
          /\ APIndex' = APIndex]_vars

\* C18 witness: a connect event arrived while the connection-timeout timer runs.
C18_Witness ==
  /\ IsEvent(op, "connect")
  /\ connectionTimer # undefined
  /\ notified = <<"connect">>

\* C19: while ready is true no timer of either role is scheduled, so neither
\* expiry can run.
C19_ReadyHasNoTimer ==
  ready => (\A i \in TimerIds : timers[i] = "free")
             /\ connectionTimer = undefined /\ reconnectTimer = undefined

\* C19 witness: a gotIP event arrived after a retry had been made.
C19_Witness ==
  /\ IsEvent(op, "gotIP")
  /\ ready
  /\ connects = 0

\* C20: the two timers are never scheduled together, and a connection-timeout
\* timer is only started by a backoff expiry, which has cleared the backoff
\* handle (the first one is started by the constructor).
C20_TimersNotTogether ==
  /\ [](LiveTimers(timers, "connection") = {} \/ LiveTimers(timers, "reconnect") = {})
  /\ [][(LiveTimers(timers', "connection") \ LiveTimers(timers, "connection")) # {}
          => (op' = <<"reconnectExpiry">> /\ reconnectTimer' = undefined)]_vars
  /\ [][(LiveTimers(timers', "reconnect") # {})
          => LiveTimers(timers', "connection") = {}]_vars

\* C20 witness: a backoff expiry has started a connection-timeout timer.
C20_Witness ==
  /\ op = <<"reconnectExpiry">>
  /\ LiveTimers(timers, "connection") # {}
  /\ LiveTimers(timers, "reconnect") = {}

=============================================================================
